---- MODULE Spec2Model ----
(***************************************************************************)
(* Model of cloud/services/bastionhosts/bastionhosts.go: the bastion host  *)
(* service's Reconcile and Delete, which orchestrate three cloud clients   *)
(* (subnets, public IPs, bastion hosts) over the batch of bastion specs    *)
(* supplied by the scope.                                                  *)
(*                                                                         *)
(* Every client call is one step of the model.  The call, its arguments,   *)
(* its payload and the cloud's answer are appended to `calls`, the trace   *)
(* of the invocation in progress, so that ordering properties become       *)
(* state predicates over `calls`.                                          *)
(***************************************************************************)
EXTENDS Integers, Sequences, FiniteSets, TLC

\* Longest batch BastionSpecs() returns in the model.
MaxSpecs == 2

(***************************************************************************)
(* Strings.  A string is a sequence of one-character strings, so that      *)
(* strings.ToLower and fmt.Sprintf are computed and not assumed.           *)
(***************************************************************************)
ToLowerChar(c) ==
    CASE c = "B" -> "b"
      [] c = "I" -> "i"
      [] c = "P" -> "p"
      [] OTHER -> c

ToLower(s) == [k \in 1..Len(s) |-> ToLowerChar(s[k])]

\* Variant: the whole IP configuration name goes through strings.ToLower.
BastionHostIPConfigName_Lowered(name) ==
    ToLower(name \o <<"-">> \o <<"b", "a", "s", "t", "i", "o", "n", "I", "P">>)

\* fmt.Sprintf("%s-%s", name, "bastionIP")
BastionHostIPConfigName(name) ==
    name \o <<"-">> \o <<"b", "a", "s", "t", "i", "o", "n", "I", "P">>

\* fmt.Sprintf("%s-bastion", strings.ToLower(name))
BastionDNSName(name) ==
    ToLower(name) \o <<"-", "b", "a", "s", "t", "i", "o", "n">>

(***************************************************************************)
(* The scope: resource group, location, cluster name and the bastion specs.*)
(***************************************************************************)
ResourceGroup == "my-rg"
Location == "westus"
ClusterName == "my-cluster"

\* The bastion specs a batch is drawn from.  Names mix upper and lower case.
BastionSpecPool ==
    { [Name |-> <<"B", "1">>, VNetName |-> "vnet1", SubnetName |-> "snet1",
       PublicIPName |-> <<"P", "1">>],
      [Name |-> <<"b", "2">>, VNetName |-> "vnet1", SubnetName |-> "snet2",
       PublicIPName |-> <<"p", "I">>],
      [Name |-> <<"B", "3">>, VNetName |-> "vnet1", SubnetName |-> "snet1",
       PublicIPName |-> <<"P", "1">>] }

BoundedSeq(S, n) == UNION {[1..m -> S] : m \in 0..n}

AllSubnetKeys == {<<sp.VNetName, sp.SubnetName>> : sp \in BastionSpecPool}
AllPublicIPNames == {sp.PublicIPName : sp \in BastionSpecPool}

(***************************************************************************)
(* Errors.  A Go error is nil, a client error carrying a status code, or a *)
(* pkg/errors wrapper with a message and a cause.                          *)
(***************************************************************************)
NilErr == [nil |-> TRUE]
ClientErr(code) == [nil |-> FALSE, code |-> code]

\* errors.Wrap / errors.Wrapf: nil stays nil.
Wrap(err, msg) ==
    IF err = NilErr THEN NilErr ELSE [nil |-> FALSE, msg |-> msg, cause |-> err]

\* azure.ResourceNotFound: the error's status code is 404.
ResourceNotFound(err) == err # NilErr /\ err.code = 404

\* "failed to delete Bastion Host %s in resource group %s"
DeleteErrMsg(name, rg) ==
    [text |-> "failed to delete Bastion Host", name |-> name, rg |-> rg]

(***************************************************************************)
(* Payloads.                                                               *)
(***************************************************************************)
NoID == <<>>
NoPayload == [none |-> TRUE]

\* network.PublicIPAddress built by createBastionPublicIP
PublicIPPayload(ipName) ==
    [Sku |-> "Standard",
     Name |-> ipName,
     Location |-> Location,
     PublicIPAddressVersion |-> "IPv4",
     PublicIPAllocationMethod |-> "Static",
     DomainNameLabel |-> ToLower(ipName)]

\* infrav1.Build(...) through converters.TagsToMap
BastionTags(name) ==
    [ClusterName |-> ClusterName, Lifecycle |-> "owned", Name |-> name,
     Role |-> "Bastion"]

\* network.BastionHost built by Reconcile
BastionHostPayload(bastionSpec, subnetID, publicIPID) ==
    [Name |-> bastionSpec.Name,
     Location |-> Location,
     Tags |-> BastionTags(bastionSpec.Name),
     DNSName |-> BastionDNSName(bastionSpec.Name),
     IPConfigurations |->
        << [Name |-> BastionHostIPConfigName(bastionSpec.Name),
            Subnet |-> subnetID,
            PublicIPAddress |-> publicIPID,
            PrivateIPAllocationMethod |-> "Static"] >>]

VARIABLES
    specs,       \* s.Scope.BastionSpecs()
    subnets,     \* cloud: the <<vnet, subnet>> pairs that exist
    publicIPs,   \* cloud: the names of the public IPs that exist
    hosts,       \* cloud: the names of the bastion hosts that exist
    op,          \* the invocation in progress or last finished
    pc,          \* its position
    i,           \* index of bastionSpec in the range loop (from 1)
    subnet,      \* local subnet.ID
    publicIP,    \* local publicIP.ID
    result,      \* what the last finished invocation returned
    calls,       \* client calls of the invocation, in order
    hosts0,      \* history: hosts when the invocation started
    publicIPs0,  \* history: publicIPs when the invocation started
    createdIPs,  \* history: public IPs a Reconcile has created
    deletedHosts \* history: bastion hosts a Delete has removed

vars == <<specs, subnets, publicIPs, hosts, op, pc, i, subnet, publicIP,
          result, calls, hosts0, publicIPs0, createdIPs, deletedHosts>>

history == <<hosts0, publicIPs0>>

cloud == <<subnets, publicIPs, hosts>>

(***************************************************************************)
(* The cloud behind the clients.  A Get answers with the resource or with  *)
(* 404 according to what exists; every call may also fail with a 500.      *)
(***************************************************************************)
SubnetID(vnet, name) == <<"subnets", vnet, name>>
PublicIPID(name) == <<"publicIPAddresses", name>>

Answer(err, id) == [err |-> err, id |-> id]

SubnetsClientGet(vnet, name) ==
    IF <<vnet, name>> \in subnets
    THEN {Answer(NilErr, SubnetID(vnet, name)), Answer(ClientErr(500), NoID)}
    ELSE {Answer(ClientErr(404), NoID), Answer(ClientErr(500), NoID)}

PublicIPsClientGet(name) ==
    IF name \in publicIPs
    THEN {Answer(NilErr, PublicIPID(name)), Answer(ClientErr(500), NoID)}
    ELSE {Answer(ClientErr(404), NoID), Answer(ClientErr(500), NoID)}

PublicIPsClientCreateOrUpdate(name) ==
    {Answer(NilErr, NoID), Answer(ClientErr(500), NoID)}

BastionClientCreateOrUpdate(name) ==
    {Answer(NilErr, NoID), Answer(ClientErr(500), NoID)}

BastionClientDelete(name) ==
    IF name \in hosts
    THEN {Answer(NilErr, NoID), Answer(ClientErr(500), NoID)}
    ELSE {Answer(ClientErr(404), NoID), Answer(ClientErr(500), NoID)}

\* One entry of the call trace.
Call(client, method, rg, key, payload, ans) ==
    [client |-> client, method |-> method, idx |-> i, rg |-> rg, key |-> key,
     payload |-> payload, err |-> ans.err, id |-> ans.id]

Init ==
    /\ specs \in BoundedSeq(BastionSpecPool, MaxSpecs)
    /\ subnets \in SUBSET AllSubnetKeys
    /\ publicIPs \in SUBSET AllPublicIPNames
    /\ hosts = {}
    /\ op = "none"
    /\ pc = "idle"
    /\ i = 0
    /\ subnet = NoID
    /\ publicIP = NoID
    /\ result = NilErr
    /\ calls = <<>>
    /\ hosts0 = {}
    /\ publicIPs0 = publicIPs
    /\ createdIPs = {}
    /\ deletedHosts = {}

\* return err: the invocation is over and its locals are gone.
Return(err) ==
    /\ pc' = "done"
    /\ result' = err
    /\ subnet' = NoID
    /\ publicIP' = NoID
    /\ UNCHANGED <<specs, op, i, history>>

\* The controller invokes Reconcile or Delete when no invocation is running.
Invoke(name) ==
    /\ pc \in {"idle", "done"}
    /\ op' = name
    /\ pc' = "loop"
    /\ i' = 1
    /\ subnet' = NoID
    /\ publicIP' = NoID
    /\ calls' = <<>>
    /\ hosts0' = hosts
    /\ publicIPs0' = publicIPs
    /\ UNCHANGED <<specs, cloud, result, createdIPs, deletedHosts>>

InvokeReconcile == Invoke("Reconcile")
InvokeDelete == Invoke("Delete")

(***************************************************************************)
(* Reconcile                                                                *)
(***************************************************************************)
\* for _, bastionSpec := range s.Scope.BastionSpecs() { ... } return nil
ReconcileLoop ==
    /\ op = "Reconcile" /\ pc = "loop"
    /\ IF i <= Len(specs)
       THEN /\ pc' = "getSubnet"
            /\ UNCHANGED <<specs, op, i, subnet, publicIP, result, history>>
       ELSE Return(NilErr)
    /\ UNCHANGED <<cloud, calls, createdIPs, deletedHosts>>

\* Variant: the error of the subnet Get is dropped and the spec goes on.
ReconcileGetSubnet_ErrorIgnored ==
    /\ op = "Reconcile" /\ pc = "getSubnet"
    /\ \E ans \in SubnetsClientGet(specs[i].VNetName, specs[i].SubnetName) :
         /\ calls' = Append(calls, Call("subnets", "Get", ResourceGroup,
                        <<specs[i].VNetName, specs[i].SubnetName>>, NoPayload, ans))
         /\ subnet' = ans.id
         /\ pc' = "getPublicIP"
         /\ UNCHANGED <<specs, op, i, publicIP, result, history>>
    /\ UNCHANGED <<cloud, createdIPs, deletedHosts>>

\* subnet, err := s.SubnetsClient.Get(...)
ReconcileGetSubnet ==
    /\ op = "Reconcile" /\ pc = "getSubnet"
    /\ \E ans \in SubnetsClientGet(specs[i].VNetName, specs[i].SubnetName) :
         /\ calls' = Append(calls, Call("subnets", "Get", ResourceGroup,
                        <<specs[i].VNetName, specs[i].SubnetName>>, NoPayload, ans))
         /\ IF ans.err # NilErr
            THEN Return(Wrap(ans.err, "failed to get subnet"))
            ELSE /\ subnet' = ans.id
                 /\ pc' = "getPublicIP"
                 /\ UNCHANGED <<specs, op, i, publicIP, result, history>>
    /\ UNCHANGED <<cloud, createdIPs, deletedHosts>>

\* Variant: every error of the Get, NotFound or not, leads to the creation.
ReconcileGetPublicIP_AnyErrorCreates ==
    /\ op = "Reconcile" /\ pc = "getPublicIP"
    /\ \E ans \in PublicIPsClientGet(specs[i].PublicIPName) :
         /\ calls' = Append(calls, Call("publicips", "Get", ResourceGroup,
                        specs[i].PublicIPName, NoPayload, ans))
         /\ publicIP' = ans.id
         /\ pc' = IF ans.err # NilErr THEN "createPublicIP" ELSE "createBastion"
         /\ UNCHANGED <<specs, op, i, subnet, result, history>>
    /\ UNCHANGED <<cloud, createdIPs, deletedHosts>>

\* publicIP, err = s.PublicIPsClient.Get(...) and the branch on err
ReconcileGetPublicIP ==
    /\ op = "Reconcile" /\ pc = "getPublicIP"
    /\ \E ans \in PublicIPsClientGet(specs[i].PublicIPName) :
         /\ calls' = Append(calls, Call("publicips", "Get", ResourceGroup,
                        specs[i].PublicIPName, NoPayload, ans))
         /\ IF ans.err # NilErr /\ ResourceNotFound(ans.err)
            THEN /\ publicIP' = ans.id
                 /\ pc' = "createPublicIP"
                 /\ UNCHANGED <<specs, op, i, subnet, result, history>>
            ELSE IF ans.err # NilErr
            THEN Return(Wrap(ans.err, "failed to get existing publicIP"))
            ELSE /\ publicIP' = ans.id
                 /\ pc' = "createBastion"
                 /\ UNCHANGED <<specs, op, i, subnet, result, history>>
    /\ UNCHANGED <<cloud, createdIPs, deletedHosts>>

\* iperr := s.createBastionPublicIP(ctx, bastionSpec.PublicIPName)
createBastionPublicIP ==
    /\ op = "Reconcile" /\ pc = "createPublicIP"
    /\ LET ipName == specs[i].PublicIPName IN
       \E ans \in PublicIPsClientCreateOrUpdate(ipName) :
         /\ calls' = Append(calls, Call("publicips", "CreateOrUpdate", ResourceGroup,
                        ipName, PublicIPPayload(ipName), ans))
         /\ IF ans.err # NilErr
            THEN /\ Return(Wrap(ans.err, "failed to create bastion publicIP"))
                 /\ UNCHANGED <<publicIPs, createdIPs>>
            ELSE /\ publicIPs' = publicIPs \cup {ipName}
                 /\ createdIPs' = createdIPs \cup {ipName}
                 /\ pc' = "refetchPublicIP"
                 /\ UNCHANGED <<specs, op, i, subnet, publicIP, result, history>>
    /\ UNCHANGED <<subnets, hosts, deletedHosts>>

\* Variant: no re-fetch; the upsert uses what the first Get left in publicIP.
ReconcileRefetchPublicIP_Skipped ==
    /\ op = "Reconcile" /\ pc = "refetchPublicIP"
    /\ pc' = "createBastion"
    /\ UNCHANGED <<specs, op, i, subnet, publicIP, result, history>>
    /\ UNCHANGED <<cloud, calls, createdIPs, deletedHosts>>

\* publicIP, errPublicIP = s.PublicIPsClient.Get(...) after the creation
ReconcileRefetchPublicIP ==
    /\ op = "Reconcile" /\ pc = "refetchPublicIP"
    /\ \E ans \in PublicIPsClientGet(specs[i].PublicIPName) :
         /\ calls' = Append(calls, Call("publicips", "Get", ResourceGroup,
                        specs[i].PublicIPName, NoPayload, ans))
         /\ IF ans.err # NilErr
            THEN Return(Wrap(ans.err, "failed to get created publicIP"))
            ELSE /\ publicIP' = ans.id
                 /\ pc' = "createBastion"
                 /\ UNCHANGED <<specs, op, i, subnet, result, history>>
    /\ UNCHANGED <<cloud, createdIPs, deletedHosts>>

\* Variant: the error of the upsert is dropped and the loop goes on.
ReconcileCreateBastion_ErrorSwallowed ==
    /\ op = "Reconcile" /\ pc = "createBastion"
    /\ \E ans \in BastionClientCreateOrUpdate(specs[i].Name) :
         /\ calls' = Append(calls, Call("bastion", "CreateOrUpdate", ResourceGroup,
                        specs[i].Name,
                        BastionHostPayload(specs[i], subnet, publicIP), ans))
         /\ hosts' = IF ans.err # NilErr THEN hosts ELSE hosts \cup {specs[i].Name}
         /\ i' = i + 1
         /\ pc' = "loop"
         /\ UNCHANGED <<specs, op, subnet, publicIP, result, history>>
    /\ UNCHANGED <<subnets, publicIPs, createdIPs, deletedHosts>>

\* err = s.Client.CreateOrUpdate(ctx, rg, bastionSpec.Name, network.BastionHost{...})
ReconcileCreateBastion ==
    /\ op = "Reconcile" /\ pc = "createBastion"
    /\ \E ans \in BastionClientCreateOrUpdate(specs[i].Name) :
         /\ calls' = Append(calls, Call("bastion", "CreateOrUpdate", ResourceGroup,
                        specs[i].Name,
                        BastionHostPayload(specs[i], subnet, publicIP), ans))
         /\ IF ans.err # NilErr
            THEN /\ Return(Wrap(ans.err, "cannot create bastion host"))
                 /\ UNCHANGED hosts
            ELSE /\ hosts' = hosts \cup {specs[i].Name}
                 /\ i' = i + 1
                 /\ pc' = "loop"
                 /\ UNCHANGED <<specs, op, subnet, publicIP, result, history>>
    /\ UNCHANGED <<subnets, publicIPs, createdIPs, deletedHosts>>

(***************************************************************************)
(* Delete                                                                   *)
(***************************************************************************)
\* for _, bastionSpec := range s.Scope.BastionSpecs() { ... } return nil
DeleteLoop ==
    /\ op = "Delete" /\ pc = "loop"
    /\ IF i <= Len(specs)
       THEN /\ pc' = "deleteBastion"
            /\ UNCHANGED <<specs, op, i, subnet, publicIP, result, history>>
       ELSE Return(NilErr)
    /\ UNCHANGED <<cloud, calls, createdIPs, deletedHosts>>

\* Variant: NotFound moves on to the next spec (continue, not return).
DeleteNotFound_Continues ==
    /\ i' = i + 1
    /\ pc' = "loop"
    /\ UNCHANGED <<specs, op, subnet, publicIP, result, history>>
    /\ UNCHANGED <<cloud, deletedHosts>>

\* Variant: NotFound is not told apart and is returned like any error.
DeleteNotFound_ReturnsError ==
    /\ Return(Wrap(ClientErr(404), DeleteErrMsg(specs[i].Name, ResourceGroup)))
    /\ UNCHANGED <<cloud, deletedHosts>>

\* if err != nil && azure.ResourceNotFound(err) { return nil }
DeleteNotFound ==
    /\ Return(NilErr)
    /\ UNCHANGED <<cloud, deletedHosts>>

\* Variant: the error is dropped and the loop goes on.
DeleteFailed_Continues(err) ==
    /\ i' = i + 1
    /\ pc' = "loop"
    /\ UNCHANGED <<specs, op, subnet, publicIP, result, history>>
    /\ UNCHANGED <<cloud, deletedHosts>>

\* if err != nil { return errors.Wrapf(err, "failed to delete Bastion Host ...") }
DeleteFailed(err) ==
    /\ Return(Wrap(err, DeleteErrMsg(specs[i].Name, ResourceGroup)))
    /\ UNCHANGED <<cloud, deletedHosts>>

\* Variant: the public IP of the spec is removed with its bastion host.
DeleteSucceeded_RemovesPublicIP ==
    /\ hosts' = hosts \ {specs[i].Name}
    /\ publicIPs' = publicIPs \ {specs[i].PublicIPName}
    /\ deletedHosts' = deletedHosts \cup {specs[i].Name}
    /\ i' = i + 1
    /\ pc' = "loop"
    /\ UNCHANGED <<specs, op, subnet, publicIP, result, history, subnets>>

\* err == nil: the bastion host is gone, on to the next spec
DeleteSucceeded ==
    /\ hosts' = hosts \ {specs[i].Name}
    /\ deletedHosts' = deletedHosts \cup {specs[i].Name}
    /\ i' = i + 1
    /\ pc' = "loop"
    /\ UNCHANGED <<specs, op, subnet, publicIP, result, history>>
    /\ UNCHANGED <<subnets, publicIPs>>

\* err := s.Client.Delete(ctx, rg, bastionSpec.Name) and the branches on err
DeleteBastion ==
    /\ op = "Delete" /\ pc = "deleteBastion"
    /\ \E ans \in BastionClientDelete(specs[i].Name) :
         /\ calls' = Append(calls, Call("bastion", "Delete", ResourceGroup,
                        specs[i].Name, NoPayload, ans))
         /\ IF ans.err # NilErr /\ ResourceNotFound(ans.err)
            THEN DeleteNotFound
            ELSE IF ans.err # NilErr
            THEN DeleteFailed(ans.err)
            ELSE DeleteSucceeded
    /\ UNCHANGED createdIPs

Next ==
    \/ InvokeReconcile
    \/ InvokeDelete
    \/ ReconcileLoop
    \/ ReconcileGetSubnet
    \/ ReconcileGetPublicIP
    \/ createBastionPublicIP
    \/ ReconcileRefetchPublicIP
    \/ ReconcileCreateBastion
    \/ DeleteLoop
    \/ DeleteBastion

Spec == Init /\ [][Next]_vars

(***************************************************************************)
(* Vocabulary of the properties: positions in the call trace.              *)
(***************************************************************************)
Pos == 1..Len(calls)

IsCall(k, client, method) ==
    calls[k].client = client /\ calls[k].method = method

Failed(k) == calls[k].err # NilErr
NotFoundAt(k) == Failed(k) /\ calls[k].err.code = 404

\* The Get that follows the creation of the public IP.
IsRefetch(k) ==
    /\ IsCall(k, "publicips", "Get")
    /\ k > 1
    /\ IsCall(k - 1, "publicips", "CreateOrUpdate")
    /\ calls[k - 1].idx = calls[k].idx

\* The first public-IP Get of a spec.
IsFirstGet(k) == IsCall(k, "publicips", "Get") /\ ~IsRefetch(k)

\* A failure Reconcile does not recover from.
Fatal(k) == Failed(k) /\ ~(IsFirstGet(k) /\ NotFoundAt(k))

\* Reconcile is past the spec at index idx: it returned or moved on.
PastSpec(idx) == op = "Reconcile" /\ (pc = "done" \/ i > idx)

PublicIPCreates(idx) ==
    {k \in Pos : IsCall(k, "publicips", "CreateOrUpdate") /\ calls[k].idx = idx}

BastionUpserts(idx) ==
    {k \in Pos : IsCall(k, "bastion", "CreateOrUpdate") /\ calls[k].idx = idx}

\* Lower case, written out per letter of the names in use.
LowerPairs == {<<"B", "b">>, <<"P", "p">>, <<"I", "i">>}
IsLowerOf(l, s) ==
    /\ Len(l) = Len(s)
    /\ \A k \in 1..Len(s) :
         IF \E pr \in LowerPairs : pr[1] = s[k]
         THEN <<s[k], l[k]>> \in LowerPairs
         ELSE l[k] = s[k]

\* The creation at position k has the shape the helper gives a public IP.
WellFormedPublicIPCreate(k) ==
    /\ calls[k].key = specs[calls[k].idx].PublicIPName
    /\ calls[k].rg = ResourceGroup
    /\ calls[k].payload.PublicIPAllocationMethod = "Static"
    /\ calls[k].payload.PublicIPAddressVersion = "IPv4"
    /\ IsLowerOf(calls[k].payload.DomainNameLabel, calls[k].key)

\* What follows a successful creation at position k: the second Get, and
\* the upsert with its identifier or the error of the re-fetch.
AfterCreate(k) ==
    /\ k + 1 \in Pos
    /\ IsCall(k + 1, "publicips", "Get")
    /\ calls[k + 1].key = calls[k].key
    /\ calls[k + 1].idx = calls[k].idx
    /\ IF Failed(k + 1)
       THEN /\ pc = "done"
            /\ result = [nil |-> FALSE, msg |-> "failed to get created publicIP",
                         cause |-> calls[k + 1].err]
            /\ BastionUpserts(calls[k].idx) = {}
       ELSE /\ BastionUpserts(calls[k].idx) = {k + 2}
            /\ calls[k + 2].payload.IPConfigurations[1].PublicIPAddress
                 = calls[k + 1].id
            /\ calls[k + 1].id # NoID

(***************************************************************************)
(* C1, as stated: for every spec whose first public-IP Get answers         *)
(* NotFound, the public IP is created exactly once (static, IPv4, DNS      *)
(* label in lower case) and a second Get always follows the creation.      *)
(***************************************************************************)
C1_RefetchAlwaysFollows ==
    \A k \in Pos :
        (IsFirstGet(k) /\ NotFoundAt(k) /\ PastSpec(calls[k].idx)) =>
            /\ PublicIPCreates(calls[k].idx) = {k + 1}
            /\ WellFormedPublicIPCreate(k + 1)
            /\ AfterCreate(k + 1)

(***************************************************************************)
(* C1, amended: for every spec whose first public-IP Get answers NotFound, *)
(* the public IP is created exactly once (static, IPv4, DNS label in lower *)
(* case); when that creation succeeds a second Get follows it, a failed    *)
(* second Get returns "failed to get created publicIP" with no bastion     *)
(* upsert for the spec, and a successful one gives the upsert its          *)
(* identifier; when the creation fails Reconcile returns "failed to create *)
(* bastion publicIP" and issues no second Get.                             *)
(***************************************************************************)
C1_CreateOnceThenRefetch ==
    \A k \in Pos :
        (IsFirstGet(k) /\ NotFoundAt(k) /\ PastSpec(calls[k].idx)) =>
            /\ PublicIPCreates(calls[k].idx) = {k + 1}
            /\ WellFormedPublicIPCreate(k + 1)
            /\ IF Failed(k + 1)
               THEN /\ Len(calls) = k + 1
                    /\ pc = "done"
                    /\ result = [nil |-> FALSE,
                                 msg |-> "failed to create bastion publicIP",
                                 cause |-> calls[k + 1].err]
               ELSE AfterCreate(k + 1)

\* A Reconcile that created a public IP, fetched it again and upserted.
C1_Witness ==
    /\ op = "Reconcile" /\ pc = "done" /\ result = NilErr
    /\ \E k \in Pos :
         /\ IsFirstGet(k) /\ NotFoundAt(k)
         /\ k + 3 \in Pos
         /\ IsRefetch(k + 2) /\ ~Failed(k + 2)
         /\ IsCall(k + 3, "bastion", "CreateOrUpdate")

(***************************************************************************)
(* C2: a public IP is created only right after a Get for the same name,    *)
(* in the same spec's processing, answered NotFound; a spec whose Get      *)
(* succeeds or fails otherwise has no creation, and no public IP that      *)
(* existed when Reconcile was invoked is created by it.                    *)
(***************************************************************************)
C2_CreateOnlyAfterNotFound ==
    /\ \A k \in Pos :
         IsCall(k, "publicips", "CreateOrUpdate") =>
            /\ k > 1
            /\ IsFirstGet(k - 1)
            /\ NotFoundAt(k - 1)
            /\ calls[k - 1].key = calls[k].key
            /\ calls[k - 1].idx = calls[k].idx
            /\ calls[k].key \notin publicIPs0
    /\ \A k \in Pos :
         (IsFirstGet(k) /\ ~NotFoundAt(k)) => PublicIPCreates(calls[k].idx) = {}

\* A later Reconcile finds the public IP an earlier one created and
\* creates nothing.
C2_Witness ==
    /\ op = "Reconcile" /\ pc = "done" /\ result = NilErr
    /\ Len(specs) > 0
    /\ \A idx \in 1..Len(specs) :
         specs[idx].PublicIPName \in createdIPs \cap publicIPs0
    /\ \A k \in Pos : ~IsCall(k, "publicips", "CreateOrUpdate")

(***************************************************************************)
(* C3: whenever Delete returns nil, a bastion-host Delete has been issued  *)
(* for every spec of the batch and no bastion host named in the batch      *)
(* still exists.                                                           *)
(***************************************************************************)
C3_DeleteDeletesEach ==
    (op = "Delete" /\ pc = "done" /\ result = NilErr) =>
        \A idx \in 1..Len(specs) :
            /\ \E k \in Pos : /\ IsCall(k, "bastion", "Delete")
                              /\ calls[k].idx = idx
                              /\ calls[k].key = specs[idx].Name
            /\ specs[idx].Name \notin hosts

(***************************************************************************)
(* C4: when the bastion-host Delete for the spec at index i answers        *)
(* NotFound, Delete returns nil at once: that call is the last of the      *)
(* invocation, whatever the number of specs left in the batch.             *)
(***************************************************************************)
C4_NotFoundEndsDelete ==
    op = "Delete" =>
        \A k \in Pos :
            NotFoundAt(k) =>
                /\ k = Len(calls)
                /\ pc = "done"
                /\ result = NilErr
                /\ \A j \in Pos : calls[j].idx <= calls[k].idx

\* Delete returned on a NotFound with specs left in the batch.
C4_Witness ==
    /\ op = "Delete" /\ pc = "done"
    /\ Len(calls) > 0
    /\ NotFoundAt(Len(calls))
    /\ calls[Len(calls)].idx < Len(specs)

(***************************************************************************)
(* C5: Reconcile takes the specs in the order supplied and stops at the    *)
(* first fatal failure: the failed call is the last call of the            *)
(* invocation (a failed subnet Get is the only call of its spec), no call  *)
(* is made for a later spec, and the bastion hosts of the earlier specs    *)
(* have been upserted.                                                     *)
(***************************************************************************)
C5_StopsAtFirstFailure ==
    op = "Reconcile" =>
        /\ \A k \in Pos :
             /\ calls[k].idx \in 1..Len(specs)
             /\ k > 1 => calls[k - 1].idx <= calls[k].idx
             /\ IsCall(k, "subnets", "Get") =>
                    /\ k > 1 => calls[k - 1].idx < calls[k].idx
                    /\ calls[k].key = <<specs[calls[k].idx].VNetName,
                                        specs[calls[k].idx].SubnetName>>
        /\ \A k \in Pos :
             Fatal(k) =>
                /\ k = Len(calls)
                /\ pc = "done"
                /\ result # NilErr
                /\ \A j \in Pos : calls[j].idx <= calls[k].idx
                /\ IsCall(k, "subnets", "Get") =>
                      \A j \in Pos : calls[j].idx = calls[k].idx => j = k
                /\ \A idx \in 1..(calls[k].idx - 1) :
                      /\ \E j \in BastionUpserts(idx) :
                            ~Failed(j) /\ calls[j].key = specs[idx].Name
                      /\ specs[idx].Name \in hosts

\* A subnet Get failed for the second spec after the first was upserted.
C5_Witness ==
    /\ op = "Reconcile" /\ pc = "done"
    /\ Len(calls) > 0
    /\ IsCall(Len(calls), "subnets", "Get")
    /\ Fatal(Len(calls))
    /\ calls[Len(calls)].idx = 2
    /\ Len(specs) >= 2

(***************************************************************************)
(* C6: the bastion-host CreateOrUpdate of a spec is keyed by the resource  *)
(* group and the spec's Name, and its payload has exactly one IP           *)
(* configuration, with the subnet and public-IP identifiers resolved for   *)
(* this spec, static allocation and the name <Name>-bastionIP (not in      *)
(* lower case); its DNS name is lowercase(Name) followed by "-bastion".    *)
(***************************************************************************)
C6_BastionPayload ==
    \A k \in Pos :
        IsCall(k, "bastion", "CreateOrUpdate") =>
            LET sp == specs[calls[k].idx]
                ipc == calls[k].payload.IPConfigurations
                dns == calls[k].payload.DNSName
                n == Len(sp.Name)
                \* the last successful Get of each kind for this spec
                S == {j \in 1..(k - 1) : /\ IsCall(j, "subnets", "Get")
                                         /\ calls[j].idx = calls[k].idx
                                         /\ ~Failed(j)}
                P == {j \in 1..(k - 1) : /\ IsCall(j, "publicips", "Get")
                                         /\ calls[j].idx = calls[k].idx
                                         /\ ~Failed(j)}
            IN  /\ calls[k].rg = ResourceGroup
                /\ calls[k].key = sp.Name
                /\ Len(ipc) = 1
                /\ Cardinality(S) = 1 /\ Cardinality(P) = 1
                /\ \A j \in S : ipc[1].Subnet = calls[j].id
                /\ \A j \in P : ipc[1].PublicIPAddress = calls[j].id
                /\ ipc[1].Subnet = <<"subnets", sp.VNetName, sp.SubnetName>>
                /\ ipc[1].PublicIPAddress = <<"publicIPAddresses", sp.PublicIPName>>
                /\ ipc[1].PrivateIPAllocationMethod = "Static"
                /\ Len(ipc[1].Name) = n + 10
                /\ SubSeq(ipc[1].Name, 1, n) = sp.Name
                /\ SubSeq(ipc[1].Name, n + 1, n + 10)
                     = <<"-", "b", "a", "s", "t", "i", "o", "n", "I", "P">>
                /\ Len(dns) = n + 8
                /\ IsLowerOf(SubSeq(dns, 1, n), sp.Name)
                /\ SubSeq(dns, n + 1, n + 8)
                     = <<"-", "b", "a", "s", "t", "i", "o", "n">>

\* Two specs with different subnets and public IPs, of which the first has
\* an upper-case name, were both upserted.
C6_Witness ==
    /\ op = "Reconcile" /\ pc = "done" /\ result = NilErr
    /\ Len(specs) = 2
    /\ specs[1].Name = <<"B", "1">>
    /\ specs[1].SubnetName # specs[2].SubnetName
    /\ specs[1].PublicIPName # specs[2].PublicIPName
    /\ BastionUpserts(1) # {} /\ BastionUpserts(2) # {}

(***************************************************************************)
(* C7: Delete invoked again on a batch whose bastion hosts an earlier      *)
(* Delete removed: the NotFound of the cloud is overall success, the       *)
(* invocation returns nil and the cloud is as it was.                      *)
(***************************************************************************)
C7_DeleteIdempotent ==
    ( /\ op = "Delete" /\ pc = "done"
      /\ \A idx \in 1..Len(specs) : specs[idx].Name \notin hosts0
      /\ Len(calls) > 0
      /\ NotFoundAt(Len(calls)) ) =>
        /\ result = NilErr
        /\ hosts = hosts0
        /\ publicIPs = publicIPs0

\* The second Delete of a batch of two that a first Delete removed.
C7_Witness ==
    /\ op = "Delete" /\ pc = "done" /\ result = NilErr
    /\ Len(specs) = 2
    /\ \A idx \in 1..Len(specs) :
         specs[idx].Name \in deletedHosts /\ specs[idx].Name \notin hosts0
    /\ Len(calls) = 1
    /\ NotFoundAt(1)
    /\ hosts = hosts0

(***************************************************************************)
(* C8: Reconcile returns nil only when the subnet Get, the last public-IP  *)
(* Get and the bastion-host CreateOrUpdate of every spec succeeded;        *)
(* otherwise it returns one error that wraps the cause of the first        *)
(* failing call and names its phase.                                       *)
(***************************************************************************)
PhaseOf(k) ==
    IF IsCall(k, "subnets", "Get") THEN "failed to get subnet"
    ELSE IF IsRefetch(k) THEN "failed to get created publicIP"
    ELSE IF IsCall(k, "publicips", "Get") THEN "failed to get existing publicIP"
    ELSE IF IsCall(k, "publicips", "CreateOrUpdate")
         THEN "failed to create bastion publicIP"
    ELSE "cannot create bastion host"

SpecSucceeded(idx) ==
    LET gets == {k \in Pos : IsCall(k, "publicips", "Get") /\ calls[k].idx = idx}
    IN  /\ \E k \in Pos : /\ IsCall(k, "subnets", "Get")
                          /\ calls[k].idx = idx
                          /\ ~Failed(k)
        /\ gets # {}
        /\ \A k \in gets : (\A j \in gets : j <= k) => ~Failed(k)
        /\ \E k \in BastionUpserts(idx) : ~Failed(k)

C8_ReconcileResult ==
    (op = "Reconcile" /\ pc = "done") =>
        LET fatal == {k \in Pos : Fatal(k)} IN
        IF result = NilErr
        THEN /\ fatal = {}
             /\ \A idx \in 1..Len(specs) : SpecSucceeded(idx)
        ELSE /\ fatal = {Len(calls)}
             /\ result = [nil |-> FALSE, msg |-> PhaseOf(Len(calls)),
                          cause |-> calls[Len(calls)].err]
             /\ result.cause \in {[nil |-> FALSE, code |-> 404],
                                  [nil |-> FALSE, code |-> 500]}
             /\ \E idx \in 1..Len(specs) : ~SpecSucceeded(idx)

\* The upsert of the second spec failed after a public IP was created.
C8_Witness ==
    /\ op = "Reconcile" /\ pc = "done"
    /\ result # NilErr
    /\ result.msg = "cannot create bastion host"
    /\ calls[Len(calls)].idx = 2
    /\ \E k \in Pos : IsRefetch(k)

(***************************************************************************)
(* C9: when the bastion-host Delete for the spec at index i fails with an  *)
(* error that is not NotFound, Delete returns at once an error that wraps  *)
(* the cause and names the bastion host and the resource group; no Delete  *)
(* is issued for a later spec and the hosts of the earlier specs stay      *)
(* deleted.                                                                *)
(***************************************************************************)
C9_DeleteAbortsOnError ==
    op = "Delete" =>
        \A k \in Pos :
            (Failed(k) /\ ~NotFoundAt(k)) =>
                /\ k = Len(calls)
                /\ pc = "done"
                /\ result = [nil |-> FALSE,
                             msg |-> [text |-> "failed to delete Bastion Host",
                                      name |-> specs[calls[k].idx].Name,
                                      rg |-> "my-rg"],
                             cause |-> calls[k].err]
                /\ \A j \in Pos : calls[j].idx <= calls[k].idx
                /\ \A idx \in 1..(calls[k].idx - 1) :
                      /\ \E j \in Pos : /\ calls[j].idx = idx
                                        /\ calls[j].key = specs[idx].Name
                                        /\ ~Failed(j)
                      /\ specs[idx].Name \notin hosts

\* The Delete of the second spec failed after the first host was removed.
C9_Witness ==
    /\ op = "Delete" /\ pc = "done"
    /\ result # NilErr
    /\ Len(calls) = 2
    /\ specs[1].Name \in hosts0
    /\ specs[1].Name \notin hosts
    /\ Len(specs) >= 2

(***************************************************************************)
(* C10: Delete calls nothing but the bastion-host client's Delete, at most *)
(* once per spec, and Reconcile never calls it; no step removes a public   *)
(* IP or changes the subnets, and a step of Delete leaves the public IPs   *)
(* as they are, so a public IP created by Reconcile still exists.          *)
(***************************************************************************)
C10_DeleteTouchesOnlyBastions ==
    /\ [](/\ op = "Delete" =>
               /\ \A k \in Pos : IsCall(k, "bastion", "Delete")
               /\ \A k, j \in Pos : calls[k].idx = calls[j].idx => k = j
          /\ op = "Reconcile" => \A k \in Pos : calls[k].method # "Delete"
          /\ createdIPs \subseteq publicIPs)
    /\ [][/\ subnets' = subnets
          /\ publicIPs \subseteq publicIPs'
          /\ op' = "Delete" => publicIPs' = publicIPs]_vars

\* A Delete removed a bastion host after a Reconcile had created a public IP.
C10_Witness ==
    /\ op = "Delete" /\ pc = "done" /\ result = NilErr
    /\ createdIPs # {}
    /\ hosts # hosts0
    /\ Len(calls) = Len(specs)

====
